---------------------------- MODULE Spec2Model ----------------------------
(***************************************************************************)
(* Model of bob's bound statements (stmt_bound.go) and of the sqlite       *)
(* SelectQuery renderer (dialect/sqlite select.go).                        *)
(*                                                                         *)
(* Go slices are 0-based; the sequences here are 1-based, so the Go index  *)
(* i is the index i+1 below.                                               *)
(***************************************************************************)
EXTENDS Naturals, Sequences, FiniteSets

VARIABLES
    query,      \* the placeholders the rendered query declares, in order
    argType,    \* the type parameter Arg: its field names, in declared order
    made,       \* what makeStructBinder returned for them
    extracted,  \* the last argument given to toArgs and what it returned
    handles,    \* the Statement values the bound statements point at
    stmts,      \* the bound statements made so far
    last,       \* the last operation on a bound statement and its outcome
    ws          \* a SelectQuery, a start offset and what WriteSQL returned

binderVars == <<made, extracted>>
stmtVars == <<handles, stmts, last>>
vars == <<query, argType, made, extracted, handles, stmts, last, ws>>

---------------------------------------------------------------------------
(* Bounds *)

MaxPlaceholders == 2
MaxFields == 2
MaxStmts == 3
MaxPrepared == 1
MaxPresent == 2
MaxClauseArgs == 1
MaxStart == 1

---------------------------------------------------------------------------
(* Placeholders of a rendered query, argument types, argument values *)

Names == {"id", "name", "ID"}

Range(s) == {s[i] : i \in 1..Len(s)}

SeqsUpTo(S, n) == UNION {[1..k -> S] : k \in 0..n}

\* bob.namedArg: a single name
NamedArg(n) == [kind |-> "namedArg", names |-> <<n>>]
\* bob.named: a group of names
Named(ns) == [kind |-> "named", names |-> ns]
\* any other argument of the rendered query (a plain positional value)
Positional == [kind |-> "positional", names |-> <<>>]
NoArg == [kind |-> "none", names |-> <<>>]

Placeholders ==
    {NamedArg(n) : n \in Names}
        \cup {Named(<<"id">>), Named(<<"id", "name">>), Positional}

PlaceholderLists == SeqsUpTo(Placeholders, MaxPlaceholders)

\* An argument type is the list of its field names in declaration order;
\* the names of one type are distinct.
ArgTypes ==
    {t \in SeqsUpTo(Names, MaxFields) :
        \A i, j \in 1..Len(t) : t[i] = t[j] => i = j}

Values == {"7", "x"}

\* An argument: a struct (or pointer to one) holding one value per field, in
\* declaration order, or a nil pointer.
NilArg == [nil |-> TRUE, vals |-> <<>>]
ArgValues(T) ==
    {[nil |-> FALSE, vals |-> v] : v \in [1..Len(T) -> Values]}
        \cup {NilArg}

\* mappings.GetMappings(reflect.TypeOf(x)).All: the name of every field, at
\* the field's ordinal
GetMappingsAll(T) == T

---------------------------------------------------------------------------
(* structBinder *)

structBinder(args, fields) == [args |-> args, fields |-> fields]

ZeroBinder == structBinder(<<>>, <<>>)

NoError == [kind |-> "nil", arg |-> NoArg, name |-> ""]
NamedArgRequiredError(arg) ==
    [kind |-> "NamedArgRequiredError", arg |-> arg, name |-> ""]
MissingArgError(name) ==
    [kind |-> "MissingArgError", arg |-> NoArg, name |-> name]
ObjectIsNil == [kind |-> "object is nil", arg |-> NoArg, name |-> ""]

\* the two type assertions of makeStructBinder's first loop
IsSingleNamed(arg) ==
    \/ arg.kind = "namedArg"
    \/ arg.kind = "named" /\ Len(arg.names) = 1

RECURSIVE argPositionsLoop(_, _, _)
\* first loop of makeStructBinder: the names by position, or the error
argPositionsLoop(args, pos, argPositions) ==
    IF pos > Len(args)
    THEN [err |-> NoError, names |-> argPositions]
    ELSE IF IsSingleNamed(args[pos])
         THEN argPositionsLoop(args, pos + 1,
                               Append(argPositions, args[pos].names[1]))
         ELSE [err |-> NamedArgRequiredError(args[pos]), names |-> <<>>]

RECURSIVE checkPositionsLoop(_, _, _)
\* second loop of makeStructBinder: every position has a matching field
checkPositionsLoop(argPositions, fieldPositions, pos) ==
    IF pos > Len(argPositions)
    THEN NoError
    ELSE IF \E f \in 1..Len(fieldPositions) :
                fieldPositions[f] = argPositions[pos]
         THEN checkPositionsLoop(argPositions, fieldPositions, pos + 1)
         ELSE MissingArgError(argPositions[pos])

\* makeStructBinder with one pass over the placeholders: each is named and
\* matched to a field before the next is looked at
RECURSIVE onePassLoop(_, _, _, _)
onePassLoop(args, fieldPositions, pos, argPositions) ==
    IF pos > Len(args)
    THEN [binder |-> structBinder(argPositions, fieldPositions),
          err |-> NoError]
    ELSE IF ~IsSingleNamed(args[pos])
    THEN [binder |-> ZeroBinder, err |-> NamedArgRequiredError(args[pos])]
    ELSE IF \E f \in 1..Len(fieldPositions) :
                fieldPositions[f] = args[pos].names[1]
    THEN onePassLoop(args, fieldPositions, pos + 1,
                     Append(argPositions, args[pos].names[1]))
    ELSE [binder |-> ZeroBinder, err |-> MissingArgError(args[pos].names[1])]

makeStructBinderOnePass(args, T) == onePassLoop(args, GetMappingsAll(T), 1, <<>>)

\* makeStructBinder matching names to fields without regard to case
FoldCase(n) == IF n = "ID" THEN "id" ELSE n

makeStructBinderFoldCase(args, T) ==
    LET named == argPositionsLoop(args, 1, <<>>)
        fieldPositions == GetMappingsAll(T)
        folded == [i \in 1..Len(named.names) |-> FoldCase(named.names[i])]
        check == checkPositionsLoop(folded, fieldPositions, 1)
    IN  IF named.err # NoError
        THEN [binder |-> ZeroBinder, err |-> named.err]
        ELSE IF check # NoError
             THEN [binder |-> ZeroBinder, err |-> check]
             ELSE [binder |-> structBinder(named.names, fieldPositions),
                   err |-> NoError]

\* makeStructBinder keeping the placeholder names as the binder's fields
makeStructBinderAligned(args, T) ==
    LET named == argPositionsLoop(args, 1, <<>>)
        fieldPositions == GetMappingsAll(T)
        check == checkPositionsLoop(named.names, fieldPositions, 1)
    IN  IF named.err # NoError
        THEN [binder |-> ZeroBinder, err |-> named.err]
        ELSE IF check # NoError
             THEN [binder |-> ZeroBinder, err |-> check]
             ELSE [binder |-> structBinder(named.names, named.names),
                   err |-> NoError]

makeStructBinder(args, T) ==
    LET named == argPositionsLoop(args, 1, <<>>)
        fieldPositions == GetMappingsAll(T)
        check == checkPositionsLoop(named.names, fieldPositions, 1)
    IN  IF named.err # NoError
        THEN [binder |-> ZeroBinder, err |-> named.err]
        ELSE IF check # NoError
             THEN [binder |-> ZeroBinder, err |-> check]
             ELSE [binder |-> structBinder(named.names, fieldPositions),
                   err |-> NoError]

ArgsOk(values) == [status |-> "ok", values |-> values, err |-> NoError]
ArgsErr(e) == [status |-> "err", values |-> <<>>, err |-> e]
\* reflect.Value.Field(i) with i out of range panics
ArgsPanic == [status |-> "panic", values |-> <<>>, err |-> NoError]

RECURSIVE toArgsLoop(_, _, _, _)
\* ArgLoop of toArgs; val.Field(index) reads the field at the ordinal of the
\* placeholder
toArgsLoop(b, val, index, values) ==
    IF index > Len(b.args)
    THEN ArgsOk(values)
    ELSE IF \E f \in 1..Len(b.fields) : b.fields[f] = b.args[index]
         THEN IF index > Len(val)
              THEN ArgsPanic
              ELSE toArgsLoop(b, val, index + 1, Append(values, val[index]))
         ELSE ArgsErr(MissingArgError(b.args[index]))

toArgs(b, arg) ==
    IF arg.nil
    THEN ArgsErr(ObjectIsNil)
    ELSE toArgsLoop(b, arg.vals, 1, <<>>)

---------------------------------------------------------------------------
(* The values of the variables before anything has happened *)

NotMade == [binder |-> ZeroBinder, err |-> [kind |-> "not made", arg |-> NoArg, name |-> ""]]
NotExtracted == [arg |-> NilArg, res |-> [status |-> "none", values |-> <<>>, err |-> NoError]]

NoCall == <<>>
NoOp ==
    [op |-> "none", src |-> 0, arg |-> NilArg, status |-> "none",
     result |-> "nil", err |-> NoError, calls |-> NoCall, made |-> 0]

---------------------------------------------------------------------------
(* The prepared statements under the bound statements.  bob.Stmt and        *)
(* QueryStmt forward to a Statement: a stdStmt around a *sql.Stmt, or an    *)
(* errStmt that answers every execution with its error.                     *)

Err(kind) == [kind |-> kind, arg |-> NoArg, name |-> ""]

\* stdStmt{*sql.Stmt}; sticky: the *sql.Stmt was made with a sticky error
StdStmt(sticky) == [kind |-> "stdStmt", closed |-> FALSE, sticky |-> sticky]
\* errStmt{errors.New("stmt is not an stdStmt")}
ErrStmt == [kind |-> "errStmt", closed |-> FALSE, sticky |-> FALSE]

\* Stmt.Exec, QueryStmt.One, QueryStmt.All, QueryStmt.Cursor on a handle:
\* what comes back, and whether the query reached the database
StatementRun(h, dbErr) ==
    IF h.kind = "errStmt"
    THEN [result |-> "nil", err |-> Err("stmt is not an stdStmt"),
          executed |-> FALSE]
    ELSE IF h.sticky
    THEN [result |-> "nil", err |-> Err("sticky"), executed |-> FALSE]
    ELSE IF h.closed
    THEN [result |-> "nil", err |-> Err("sql: statement is closed"),
          executed |-> FALSE]
    ELSE IF dbErr
    THEN [result |-> "nil", err |-> Err("database error"), executed |-> TRUE]
    ELSE [result |-> "value", err |-> NoError, executed |-> TRUE]

\* Stmt.Close on a handle: a live *sql.Stmt becomes closed
StatementClose(h) ==
    IF h.kind = "stdStmt" /\ ~h.sticky
    THEN [handle |-> [h EXCEPT !.closed = TRUE], err |-> NoError]
    ELSE IF h.kind = "stdStmt"
    THEN [handle |-> h, err |-> Err("sticky")]
    ELSE [handle |-> h, err |-> NoError]

---------------------------------------------------------------------------
(* BoundStmt and BoundQueryStmt *)

\* BoundStmt{stmt: Stmt{stmt, exec}, binder} and
\* BoundQueryStmt{QueryStmt{Stmt{stmt, exec}}, binder}; stmt is the index of
\* the Statement in handles
BoundStmt(typ, stmt, exec, binder) ==
    [typ |-> typ, stmt |-> stmt, exec |-> exec, binder |-> binder]

Outcome(op, src, arg, status, result, err, calls, new) ==
    [op |-> op, src |-> src, arg |-> arg, status |-> status,
     result |-> result, err |-> err, calls |-> calls, made |-> new]

\* PrepareBound and PrepareBoundQueryx: prepare, then makeStructBinder
prepareBound(op, typ, prepErr) ==
    IF prepErr
    THEN /\ last' = Outcome(op, 0, NilArg, "err", "nil",
                            Err("prepare"), NoCall, 0)
         /\ UNCHANGED <<handles, stmts>>
    ELSE LET b == makeStructBinder(query, argType)
         IN  /\ handles' = Append(handles, StdStmt(FALSE))
             /\ IF b.err # NoError
                THEN /\ last' = Outcome(op, 0, NilArg, "err", "nil",
                                        b.err, NoCall, 0)
                     /\ UNCHANGED stmts
                ELSE /\ stmts' = Append(stmts,
                            BoundStmt(typ, Len(handles) + 1, "db", b.binder))
                     /\ last' = Outcome(op, 0, NilArg, "ok", "value",
                                        NoError, NoCall, Len(stmts) + 1)

\* the statements prepared on the database so far
Prepared == Cardinality({h \in DOMAIN handles :
                            handles[h].kind = "stdStmt" /\ ~handles[h].sticky})

PrepareBound(prepErr) ==
    /\ Len(handles) < MaxStmts
    /\ Prepared < MaxPrepared
    /\ prepareBound("PrepareBound", "BoundStmt", prepErr)
    /\ UNCHANGED <<query, argType, binderVars, ws>>

PrepareBoundQueryx(prepErr) ==
    /\ Len(handles) < MaxStmts
    /\ Prepared < MaxPrepared
    /\ prepareBound("PrepareBoundQueryx", "BoundQueryStmt", prepErr)
    /\ UNCHANGED <<query, argType, binderVars, ws>>

\* InTx with a pointer receiver: the statement itself is pointed at the new
\* handle before it is returned
inTxInPlace(op, s, txDone) ==
    LET ok == handles[stmts[s].stmt].kind = "stdStmt"
        moved == [stmts[s] EXCEPT !.stmt = Len(handles) + 1, !.exec = "tx"]
    IN  IF ~ok /\ ~txDone
        THEN /\ last' = Outcome(op, s, NilArg, "panic", "nil",
                                NoError, NoCall, 0)
             /\ UNCHANGED <<handles, stmts>>
        ELSE /\ handles' =
                    Append(handles, IF ~ok THEN StdStmt(TRUE) ELSE ErrStmt)
             /\ stmts' = Append([stmts EXCEPT ![s] = moved], moved)
             /\ last' = Outcome(op, s, NilArg, "ok", "value",
                                NoError, NoCall, Len(stmts) + 1)

\* InTx of both types.  The type assertion s.stmt.(stdStmt) yields ok; the
\* branch is taken on !ok, with std the zero stdStmt, so the transaction is
\* asked to re-prepare a nil *sql.Stmt: database/sql answers with a
\* statement carrying a sticky error when the transaction is done, and
\* dereferences the nil statement otherwise.
inTx(op, s, txDone) ==
    LET ok == handles[stmts[s].stmt].kind = "stdStmt"
    IN  IF ~ok /\ ~txDone
        THEN /\ last' = Outcome(op, s, NilArg, "panic", "nil",
                                NoError, NoCall, 0)
             /\ UNCHANGED <<handles, stmts>>
        ELSE /\ handles' =
                    Append(handles, IF ~ok THEN StdStmt(TRUE) ELSE ErrStmt)
             /\ stmts' = Append(stmts,
                    [stmts[s] EXCEPT !.stmt = Len(handles) + 1,
                                     !.exec = "tx"])
             /\ last' = Outcome(op, s, NilArg, "ok", "value",
                                NoError, NoCall, Len(stmts) + 1)

BoundStmtInTx(s, txDone) ==
    /\ stmts[s].typ = "BoundStmt"
    /\ Len(handles) < MaxStmts
    /\ inTx("InTx", s, txDone)
    /\ UNCHANGED <<query, argType, binderVars, ws>>

BoundQueryStmtInTx(s, txDone) ==
    /\ stmts[s].typ = "BoundQueryStmt"
    /\ Len(handles) < MaxStmts
    /\ inTx("InTx", s, txDone)
    /\ UNCHANGED <<query, argType, binderVars, ws>>

\* Close: s.stmt.Close()
Close(s) ==
    LET c == StatementClose(handles[stmts[s].stmt])
    IN  /\ handles' = [handles EXCEPT ![stmts[s].stmt] = c.handle]
        /\ last' = Outcome("Close", s, NilArg,
                           IF c.err = NoError THEN "ok" ELSE "err",
                           "nil", c.err, NoCall, 0)
        /\ UNCHANGED <<query, argType, binderVars, stmts, ws>>

\* One call on the underlying statement and what it returned
Call(stmt, op, args, ret) ==
    [stmt |-> stmt, op |-> op, args |-> args, result |-> ret.result,
     err |-> ret.err, executed |-> ret.executed]

\* Exec, One, All and Cursor going on to the underlying statement whatever
\* toArgs returned
boundCallUnchecked(op, s, arg, dbErr) ==
    LET a == toArgs(stmts[s].binder, arg)
        ret == StatementRun(handles[stmts[s].stmt], dbErr)
    IN  IF a.status = "panic"
        THEN Outcome(op, s, arg, "panic", "nil", NoError, NoCall, 0)
        ELSE Outcome(op, s, arg,
                     IF ret.err = NoError THEN "ok" ELSE "err",
                     ret.result, ret.err,
                     <<Call(stmts[s].stmt, op, a.values, ret)>>, 0)

\* Exec, One, All and Cursor: toArgs, then the underlying statement
boundCall(op, s, arg, dbErr) ==
    LET a == toArgs(stmts[s].binder, arg)
        ret == StatementRun(handles[stmts[s].stmt], dbErr)
    IN  IF a.status = "panic"
        THEN Outcome(op, s, arg, "panic", "nil", NoError, NoCall, 0)
        ELSE IF a.status = "err"
        THEN Outcome(op, s, arg, "err", "nil", a.err, NoCall, 0)
        ELSE Outcome(op, s, arg,
                     IF ret.err = NoError THEN "ok" ELSE "err",
                     ret.result, ret.err,
                     <<Call(stmts[s].stmt, op, a.values, ret)>>, 0)

Exec(s, arg, dbErr) ==
    /\ stmts[s].typ = "BoundStmt"
    /\ last' = boundCall("Exec", s, arg, dbErr)
    /\ UNCHANGED <<query, argType, binderVars, handles, stmts, ws>>

One(s, arg, dbErr) ==
    /\ stmts[s].typ = "BoundQueryStmt"
    /\ last' = boundCall("One", s, arg, dbErr)
    /\ UNCHANGED <<query, argType, binderVars, handles, stmts, ws>>

All(s, arg, dbErr) ==
    /\ stmts[s].typ = "BoundQueryStmt"
    /\ last' = boundCall("All", s, arg, dbErr)
    /\ UNCHANGED <<query, argType, binderVars, handles, stmts, ws>>

Cursor(s, arg, dbErr) ==
    /\ stmts[s].typ = "BoundQueryStmt"
    /\ last' = boundCall("Cursor", s, arg, dbErr)
    /\ UNCHANGED <<query, argType, binderVars, handles, stmts, ws>>

---------------------------------------------------------------------------
(* sqlite SelectQuery.WriteSQL *)

\* the clauses whose ExpressIf condition depends on the query
OptionalClauses ==
    {"With", "Where", "GroupBy", "Having", "Windows", "Combine", "OrderBy",
     "Limit", "Offset"}

\* A SelectQuery, by what its clauses do when they are rendered: present is
\* the set of optional clauses that are set, nargs the number of arguments
\* each clause returns, errAt the clause whose rendering fails ("none": no
\* clause fails).
SelectQuery(present, nargs, errAt) ==
    [present |-> present, nargs |-> nargs, errAt |-> errAt]

RenderedClauses(present) == {"Select", "From"} \cup present

\* the sets of optional clauses a query may have set
PresentSets ==
    {p \in SUBSET OptionalClauses : Cardinality(p) <= MaxPresent}

\* the queries with the optional clauses of present set
SelectQueries(present) ==
    {SelectQuery(present, nargs, errAt) :
        nargs \in [RenderedClauses(present) -> 0..MaxClauseArgs],
        errAt \in RenderedClauses(present) \cup {"none"}}

NoSelectQuery == SelectQuery({}, [c \in {} |-> 0], "none")

\* the argument a clause returns for placeholder number pos
ClauseArg(clause, pos) == [clause |-> clause, pos |-> pos]

\* bob.ExpressIf: nothing when cond is false; else the clause is written
\* with placeholders numbered from start and its arguments, or its error,
\* come back
ExpressIf(sel, w, start, clause, cond) ==
    IF ~cond
    THEN [args |-> <<>>, err |-> NoError, w |-> w]
    ELSE IF sel.errAt = clause
    THEN [args |-> <<>>, err |-> Err("render"),
          w |-> Append(w, [clause |-> clause, start |-> start])]
    ELSE [args |-> [k \in 1..sel.nargs[clause] |->
                        ClauseArg(clause, start + k)],
          err |-> NoError,
          w |-> Append(w, [clause |-> clause, start |-> start])]

\* the ExpressIf calls of WriteSQL in the order of the code, each with its
\* condition: always rendered, or rendered when the clause is set
WriteSQLSteps ==
    <<[clause |-> "With", always |-> FALSE],
      [clause |-> "Select", always |-> TRUE],
      [clause |-> "From", always |-> TRUE],
      [clause |-> "Where", always |-> FALSE],
      [clause |-> "GroupBy", always |-> FALSE],
      [clause |-> "Having", always |-> FALSE],
      [clause |-> "Windows", always |-> FALSE],
      [clause |-> "Combine", always |-> FALSE],
      [clause |-> "OrderBy", always |-> FALSE],
      [clause |-> "Limit", always |-> FALSE],
      [clause |-> "Offset", always |-> FALSE]>>

\* every clause numbered from the start of the query
clauseStartFixed(start, args) == start

\* start+len(args): the offset given to each ExpressIf
clauseStart(start, args) == start + Len(args)

RECURSIVE writeSQLFrom(_, _, _, _, _)
\* WriteSQL from its step-th ExpressIf on, with the arguments gathered and
\* the text written so far
writeSQLFrom(sel, start, step, args, w) ==
    IF step > Len(WriteSQLSteps)
    THEN [args |-> args, err |-> NoError,
          w |-> Append(w, [clause |-> "\n", start |-> 0])]
    ELSE LET c == WriteSQLSteps[step]
             r == ExpressIf(sel, w, clauseStart(start, args), c.clause,
                            c.always \/ c.clause \in sel.present)
         IN  IF r.err # NoError
             THEN [args |-> <<>>, err |-> r.err, w |-> r.w]
             ELSE writeSQLFrom(sel, start, step + 1, args \o r.args, r.w)

WriteSQL(sel, start) == writeSQLFrom(sel, start, 1, <<>>, <<>>)

NoResult == [args |-> <<>>, err |-> Err("not rendered"), w |-> <<>>]
NotRendered == [sel |-> NoSelectQuery, start |-> 0, res |-> NoResult]

---------------------------------------------------------------------------
(* Specification of the binder alone: a query, an argument type, the binder *)
(* made for them and the values extracted from an argument.                 *)

InitBinder ==
    /\ query \in PlaceholderLists
    /\ argType \in ArgTypes
    /\ made = NotMade
    /\ extracted = NotExtracted
    /\ handles = <<>>
    /\ stmts = <<>>
    /\ last = NoOp
    /\ ws = NotRendered

MakeBinder ==
    /\ made = NotMade
    /\ made' = makeStructBinder(query, argType)
    /\ UNCHANGED <<query, argType, extracted, stmtVars, ws>>

ToArgs(arg) ==
    /\ made # NotMade
    /\ made.err = NoError
    /\ extracted' = [arg |-> arg, res |-> toArgs(made.binder, arg)]
    /\ UNCHANGED <<query, argType, made, stmtVars, ws>>

NextBinder ==
    \/ MakeBinder
    \/ \E arg \in ArgValues(argType) : ToArgs(arg)

SpecBinder == InitBinder /\ [][NextBinder]_vars

---------------------------------------------------------------------------
(* Specification of the bound statements *)

StmtNames == {"id", "name"}
StmtPlaceholders == {NamedArg("id"), NamedArg("ID"), Positional}

Init ==
    /\ query \in SeqsUpTo(StmtPlaceholders, MaxPlaceholders)
    /\ argType \in {t \in ArgTypes : Range(t) \subseteq StmtNames}
    /\ made = NotMade
    /\ extracted = NotExtracted
    /\ handles = <<>>
    /\ stmts = <<>>
    /\ last = NoOp
    /\ ws = NotRendered

Next ==
    \/ \E prepErr \in BOOLEAN : PrepareBound(prepErr)
    \/ \E prepErr \in BOOLEAN : PrepareBoundQueryx(prepErr)
    \/ \E s \in DOMAIN stmts, txDone \in BOOLEAN : BoundStmtInTx(s, txDone)
    \/ \E s \in DOMAIN stmts, txDone \in BOOLEAN :
            BoundQueryStmtInTx(s, txDone)
    \/ \E s \in DOMAIN stmts : Close(s)
    \/ \E s \in DOMAIN stmts, arg \in ArgValues(argType), dbErr \in BOOLEAN :
            Exec(s, arg, dbErr)
    \/ \E s \in DOMAIN stmts, arg \in ArgValues(argType), dbErr \in BOOLEAN :
            One(s, arg, dbErr)
    \/ \E s \in DOMAIN stmts, arg \in ArgValues(argType), dbErr \in BOOLEAN :
            All(s, arg, dbErr)
    \/ \E s \in DOMAIN stmts, arg \in ArgValues(argType), dbErr \in BOOLEAN :
            Cursor(s, arg, dbErr)

Spec == Init /\ [][Next]_vars

---------------------------------------------------------------------------
(* Specification of the renderer *)

InitSQL ==
    /\ \E present \in PresentSets :
            \E sel \in SelectQueries(present), start \in 0..MaxStart :
                ws = [sel |-> sel, start |-> start, res |-> NoResult]
    /\ query = <<>>
    /\ argType = <<>>
    /\ made = NotMade
    /\ extracted = NotExtracted
    /\ handles = <<>>
    /\ stmts = <<>>
    /\ last = NoOp

Render ==
    /\ ws.res = NoResult
    /\ ws' = [ws EXCEPT !.res = WriteSQL(ws.sel, ws.start)]
    /\ UNCHANGED <<query, argType, binderVars, stmtVars>>

NextSQL == Render

SpecSQL == InitSQL /\ [][NextSQL]_vars

---------------------------------------------------------------------------
(* Properties.  Helpers first; each is stated from the contract, not from  *)
(* the operators above.                                                    *)

Min(S) == CHOOSE x \in S : \A y \in S : x <= y

\* a placeholder that carries exactly one name
HasOneName(p) == p.kind \in {"namedArg", "named"} /\ Len(p.names) = 1

\* the positions of the placeholders that do not carry exactly one name
Unnamed(q) == {i \in 1..Len(q) : ~HasOneName(q[i])}

\* the positions of the one-name placeholders with no field of that name
Unmatched(q, T) ==
    {i \in 1..Len(q) :
        HasOneName(q[i]) /\ \A f \in 1..Len(T) : T[f] # q[i].names[1]}

\* the value of the argument's field called name
FieldByName(T, arg, name) ==
    arg.vals[CHOOSE f \in 1..Len(T) : T[f] = name]

\* the order in which a SELECT is to be rendered
SelectOrder ==
    <<"With", "Select", "From", "Where", "GroupBy", "Having", "Windows",
      "Combine", "OrderBy", "Limit", "Offset">>

OrderOf(clause) == CHOOSE i \in 1..Len(SelectOrder) : SelectOrder[i] = clause

IsSet(sel, clause) == clause \in {"Select", "From"} \cup sel.present

\* the clauses WriteSQL is to render, as positions of SelectOrder
ToRender(sel) ==
    {i \in 1..Len(SelectOrder) :
        /\ IsSet(sel, SelectOrder[i])
        /\ sel.errAt # "none" => i <= OrderOf(sel.errAt)}

\* the arguments of the clauses of ToRender(sel) before position i
ArgsBefore(sel, i) ==
    LET before == {j \in ToRender(sel) : j < i /\ SelectOrder[j] # sel.errAt}
        RECURSIVE Sum(_)
        Sum(S) == IF S = {} THEN 0
                  ELSE LET j == Min(S)
                       IN  sel.nargs[SelectOrder[j]] + Sum(S \ {j})
    IN  Sum(before)

ExecOps == {"Exec", "One", "All", "Cursor"}
PrepareOps == {"PrepareBound", "PrepareBoundQueryx"}

\* C1: for a binder that was constructed and a non-nil argument, what
\* toArgs returns has one value per placeholder, and value i is the value of
\* the argument's field named by placeholder i, whatever the order of the
\* fields in the type.  (Whether toArgs returns at all is C9.)
C1_ToArgsReadsFieldsByName ==
    (extracted.res.status \in {"ok", "err"} /\ ~extracted.arg.nil)
        => /\ extracted.res.status = "ok"
           /\ Len(extracted.res.values) = Len(query)
           /\ \A i \in 1..Len(query) :
                extracted.res.values[i] =
                    FieldByName(argType, extracted.arg, query[i].names[1])

C5_NamedArgRequiredFirst ==
    (made # NotMade /\ Unnamed(query) # {})
        => /\ made.err = NamedArgRequiredError(query[Min(Unnamed(query))])
           /\ made.binder = ZeroBinder

\* construction failed on an unnamed placeholder that follows a named one
\* with no matching field
C5_Witness ==
    /\ made.err.kind = "NamedArgRequiredError"
    /\ Unnamed(query) # {}
    /\ \E i \in Unmatched(query, argType) : i < Min(Unnamed(query))

\* C9: for a binder that was constructed and a non-nil argument, toArgs
\* returns values or an error: it never reads a field ordinal the argument
\* type does not have.
C9_ToArgsNeverOutOfRange ==
    (extracted.res.status # "none" /\ ~extracted.arg.nil)
        => extracted.res.status \in {"ok", "err"}

\* C3: InTx on a bound statement whose handle is a native prepared
\* statement returns a statement whose handle is that statement re-prepared
\* against the transaction; the derived statement carries an error handle
\* only when the source handle is an error handle, and then InTx itself
\* reports nothing.
C3_InTxReprepares ==
    last.op = "InTx"
        => LET src == handles[stmts[last.src].stmt]
           IN  /\ (src.kind = "stdStmt" /\ ~src.sticky)
                    => /\ last.made # 0
                       /\ handles[stmts[last.made].stmt].kind = "stdStmt"
                       /\ ~handles[stmts[last.made].stmt].sticky
                       /\ stmts[last.made].exec = "tx"
               /\ src.kind = "errStmt"
                    => /\ last.status = "ok"
                       /\ last.made # 0
                       /\ handles[stmts[last.made].stmt].kind = "errStmt"

\* C4: Exec, One, All and Cursor return the error of a failed extraction
\* with no result and without any call on the underlying statement; after
\* a successful extraction they call the underlying statement's operation
\* of the same name once, with the extracted values in placeholder order,
\* and return its result and error unchanged.
C4_BindThenForward ==
    last.op \in ExecOps
        => LET a == toArgs(stmts[last.src].binder, last.arg)
           IN  /\ last.arg.nil
                    => /\ last.err = ObjectIsNil
                       /\ last.result = "nil"
                       /\ last.calls = <<>>
               /\ a.status = "err"
                    => /\ last.err = a.err
                       /\ last.result = "nil"
                       /\ last.calls = <<>>
               /\ a.status = "ok"
                    => /\ Len(last.calls) = 1
                       /\ last.calls[1].stmt = stmts[last.src].stmt
                       /\ last.calls[1].op = last.op
                       /\ last.calls[1].args = a.values
                       /\ Len(last.calls[1].args) = Len(query)
                       /\ last.result = last.calls[1].result
                       /\ last.err = last.calls[1].err

\* a query statement passed two extracted values to the database, which
\* answered with an error
C4_Witness ==
    /\ last.op = "All"
    /\ Len(last.calls) = 1
    /\ Len(last.calls[1].args) = 2
    /\ last.calls[1].executed
    /\ last.err = Err("database error")

\* C6: when every placeholder is named and some name has no field of
\* exactly that name, PrepareBound and PrepareBoundQueryx return
\* MissingArgError with the first unmatched name in placeholder order and
\* no bound statement.
C6_MissingArgFirstUnmatched ==
    (/\ last.op \in PrepareOps
     /\ last.err # Err("prepare")
     /\ Unnamed(query) = {}
     /\ Unmatched(query, argType) # {})
        => /\ last.err =
                MissingArgError(
                    query[Min(Unmatched(query, argType))].names[1])
           /\ last.result = "nil"
           /\ last.made = 0
           /\ stmts = <<>>

\* PrepareBoundQueryx failed on "ID" although the type has a field "id"
C6_Witness ==
    /\ last.op = "PrepareBoundQueryx"
    /\ last.err = MissingArgError("ID")
    /\ \E f \in 1..Len(argType) : argType[f] = "id"
    /\ Len(query) = 2

\* C7: once a bound statement has been closed, every Exec, One, All and
\* Cursor on it with a valid argument fails with the closed error and does
\* not execute the query.
C7_ClosedIsTerminal ==
    (/\ last.op \in ExecOps
     /\ handles[stmts[last.src].stmt].closed
     /\ ~last.arg.nil)
        => /\ last.err = Err("sql: statement is closed")
           /\ \A c \in 1..Len(last.calls) : ~last.calls[c].executed

\* C8: InTx changes no bound statement that exists and no handle that
\* exists (so an open original stays open), and the statement it returns is
\* a new one with the binder of the original.
C8_InTxLeavesOriginal ==
    [][last'.op = "InTx"
        => /\ \A i \in DOMAIN stmts :
                i \in DOMAIN stmts' /\ stmts'[i] = stmts[i]
           /\ \A h \in DOMAIN handles :
                h \in DOMAIN handles' /\ handles'[h] = handles[h]
           /\ last'.made # 0
                => /\ last'.made \notin DOMAIN stmts
                   /\ stmts'[last'.made].binder = stmts[last'.src].binder
                   /\ stmts'[last'.made].stmt \notin DOMAIN handles]_vars

\* a second InTx on an open original with a non-empty binder
C8_Witness ==
    /\ last.op = "InTx"
    /\ last.made = 3
    /\ last.src = 1
    /\ stmts[1].binder.args # <<>>
    /\ ~handles[stmts[1].stmt].closed

\* C10: WriteSQL renders the clauses that are set in the order With,
\* Select, From, Where, GroupBy, Having, Windows, Combine, OrderBy, Limit,
\* Offset; each with offset start + the number of arguments of the clauses
\* rendered before it; it returns the clauses' arguments concatenated in
\* that order; and at the first clause that fails it returns that error
\* with no arguments and renders nothing further.
C10_WriteSQLOrderAndOffsets ==
    ws.res # NoResult
        => LET sel == ws.sel
               failed == sel.errAt # "none"
               rendered == SelectSeq(ws.res.w, LAMBDA e : e.clause # "\n")
           IN  /\ Len(rendered) = Cardinality(ToRender(sel))
               /\ \A r \in 1..Len(rendered) :
                    /\ OrderOf(rendered[r].clause) \in ToRender(sel)
                    /\ \A p \in 1..(r - 1) :
                            OrderOf(rendered[p].clause)
                                < OrderOf(rendered[r].clause)
                    /\ rendered[r].start =
                            ws.start
                                + ArgsBefore(sel, OrderOf(rendered[r].clause))
               /\ failed
                    => /\ ws.res.err = Err("render")
                       /\ ws.res.args = <<>>
                       /\ rendered[Len(rendered)].clause = sel.errAt
               /\ ~failed
                    => /\ ws.res.err = NoError
                       /\ Len(ws.res.args) =
                            ArgsBefore(sel, Len(SelectOrder) + 1)
                       /\ \A i \in ToRender(sel) :
                            \A k \in 1..sel.nargs[SelectOrder[i]] :
                                ws.res.args[ArgsBefore(sel, i) + k] =
                                    ClauseArg(SelectOrder[i],
                                              ws.start + ArgsBefore(sel, i) + k)

\* a query with two optional clauses, rendered from a non-zero offset, gave
\* four arguments
C10_Witness ==
    /\ ws.res # NoResult
    /\ ws.res.err = NoError
    /\ ws.start > 0
    /\ Cardinality(ws.sel.present) = 2
    /\ Len(ws.res.args) = 4

=============================================================================
